---- MODULE Spec2Model ----
\* A model of src/app.py: the Flask application "AnALiST" (login gate, ticker
\* form, prediction through the OpenAI chat completion API).
\*
\* Text is modelled as a sequence of characters, each character a TLA+ string
\* naming one code point ("a", " ", "U+00DF", ...), so that str.strip,
\* str.upper, str.isalpha, len and int() are computed as Python computes them.
EXTENDS Integers, Sequences, FiniteSets, TLC

VARIABLES
    openai,          \* the module object bound by the import at lines 3-6 (FALSE: None)
    OPENAI_API_KEY,  \* os.getenv("OPENAI_API_KEY"), read once at startup
    session,         \* per client: the Flask session, a dict (function from keys to values)
    request,         \* the request handled last (or pending): client, method, path, form
    resp,            \* the response returned for it
    calls            \* the openai.ChatCompletion.create calls made while handling it

vars == <<openai, OPENAI_API_KEY, session, request, resp, calls>>

------------------------------------------------------------------------------
\* Bounds of the model.

NumClients == 2
MaxTickerLen == 6
MaxDaysLen == 3

Clients == 1..NumClients

------------------------------------------------------------------------------
\* Python values.

\* None, where a string is expected (os.getenv of an unset variable, a form
\* field that was not submitted, error=None in the template context).
NoneValue == "None"

\* A form field that is not part of the POST body.
Absent == <<"<absent>">>

\* dict.get(key, default) on the form (request.form.get).
FormGet(form, key, default) ==
    IF form[key] = Absent THEN default ELSE form[key]

\* An empty dict.
EmptyDict == [k \in {} |-> TRUE]

\* d[key] = v
DictSet(d, key, v) == [k \in (DOMAIN d) \cup {key} |-> IF k = key THEN v ELSE d[k]]

\* dict.get(key): None (falsy, here FALSE) when the key is missing.
SessionGet(s, key) == IF key \in DOMAIN s THEN s[key] ELSE FALSE

------------------------------------------------------------------------------
\* Characters and the str methods the handlers use.

AsciiLower == {"a", "b"}
AsciiUpper == {"A", "B", "S"}
\* "U+00DF" is the sharp s (lower case, upper() gives "SS"), "U+00E9"/"U+00C9"
\* e acute in lower and upper case, "U+4E2D" a CJK ideograph (a letter
\* without case).
NonAsciiLetters == {"U+00DF", "U+00E9", "U+00C9", "U+4E2D"}
Digits == {"0", "1", "2", "3", "4", "5", "6", "7", "8", "9"}
SpaceChars == {" "}
OtherChars == {"$", "+", "-", "_", "."}

\* str.isspace / str.isalpha of one character.
IsSpace(c) == c \in SpaceChars
IsAlphaChar(c) == c \in AsciiLower \cup AsciiUpper \cup NonAsciiLetters

\* str.upper of one character (a sequence: the result may be longer).
UpperChar(c) ==
    CASE c = "a" -> <<"A">>
      [] c = "b" -> <<"B">>
      [] c = "U+00E9" -> <<"U+00C9">>
      [] c = "U+00DF" -> <<"S", "S">>
      [] OTHER -> <<c>>

RECURSIVE LStrip(_)
LStrip(s) ==
    IF s = <<>> THEN s
    ELSE IF IsSpace(Head(s)) THEN LStrip(Tail(s)) ELSE s

RECURSIVE RStrip(_)
RStrip(s) ==
    IF s = <<>> THEN s
    ELSE IF IsSpace(s[Len(s)]) THEN RStrip(SubSeq(s, 1, Len(s) - 1)) ELSE s

\* str.strip()
Strip(s) == RStrip(LStrip(s))

\* str.upper()
RECURSIVE Upper(_)
Upper(s) == IF s = <<>> THEN <<>> ELSE UpperChar(Head(s)) \o Upper(Tail(s))

\* str.isalpha(): non-empty and every character alphabetic.
IsAlpha(s) == s # <<>> /\ \A i \in 1..Len(s) : IsAlphaChar(s[i])

------------------------------------------------------------------------------
\* int(days_str), lines 89-90: surrounding whitespace is ignored, then an
\* optional sign, then decimal digits, single underscores allowed between
\* digits. Anything else raises ValueError (ok = FALSE).

DigitSeq == <<"0", "1", "2", "3", "4", "5", "6", "7", "8", "9">>
DigitVal(c) == (CHOOSE d \in 1..10 : DigitSeq[d] = c) - 1

\* The value of a digit string with underscores, read left to right.
RECURSIVE DigitsValue(_, _)
DigitsValue(s, acc) ==
    IF s = <<>> THEN acc
    ELSE IF Head(s) = "_" THEN DigitsValue(Tail(s), acc)
    ELSE DigitsValue(Tail(s), 10 * acc + DigitVal(Head(s)))

IntLiteralOk(b) ==
    /\ b # <<>>
    /\ b[1] \in Digits
    /\ b[Len(b)] \in Digits
    /\ \A i \in 1..Len(b) : b[i] \in Digits \cup {"_"}
    /\ \A i \in 1..(Len(b) - 1) : ~(b[i] = "_" /\ b[i + 1] = "_")

ParseInt(s) ==
    LET t == Strip(s)
        signed == t # <<>> /\ t[1] \in {"+", "-"}
        b == IF signed THEN Tail(t) ELSE t
        neg == signed /\ t[1] = "-"
    IN  IF IntLiteralOk(b)
        THEN [ok |-> TRUE,
              value |-> IF neg THEN 0 - DigitsValue(b, 0) ELSE DigitsValue(b, 0)]
        ELSE [ok |-> FALSE, value |-> 0]

\* str(days) as the f-string of lines 97-104 formats it (days >= 1 there).
RECURSIVE IntToStr(_)
IntToStr(n) ==
    IF n < 10 THEN <<DigitSeq[n + 1]>>
    ELSE IntToStr(n \div 10) \o <<DigitSeq[(n % 10) + 1]>>

------------------------------------------------------------------------------
\* The predict handler's input handling, lines 79-94.

\* Line 79: the ticker the handler works with.
NormalTicker(form) == Upper(Strip(FormGet(form, "ticker", <<>>)))

\* Line 82, negated: the ticker passes validation.
TickerOk(ticker) == ~(ticker = <<>> \/ ~IsAlpha(ticker) \/ Len(ticker) > 5)

\* The range test of line 91 with the upper limit excluded.
EffectiveDays_Mutant(form) ==
    LET days_str == Strip(FormGet(form, "days", <<>>))
        p == ParseInt(days_str)
    IN  IF p.ok /\ ~(p.value < 1 \/ p.value >= 60) THEN p.value ELSE 30

\* Lines 80 and 89-94: the day count, 30 when int() raises or the value is
\* out of range.
EffectiveDays(form) ==
    LET days_str == Strip(FormGet(form, "days", <<>>))
        p == ParseInt(days_str)
    IN  IF p.ok /\ ~(p.value < 1 \/ p.value > 60) THEN p.value ELSE 30

------------------------------------------------------------------------------
\* The prompt and the external call, lines 96-132.

SystemPrompt ==
    <<"You are an assistant providing hypothetical stock outlooks. Your responses should emphasize that predictions are not financial advice and should avoid guaranteeing returns.">>

\* Lines 97-104.
UserPrompt(ticker, days) ==
    <<"You are a helpful financial assistant. Provide a hypothetical price prediction for the U.S. stock ticker symbol '">>
    \o ticker \o <<"' ">> \o IntToStr(days)
    \o <<" days from today. Give the projected closing price down to the cent, followed by a brief commentary on why the price might move in that direction. This analysis is for educational purposes only and should not be taken as financial advice. Avoid providing any guarantees or promises about returns.">>

\* Lines 107-111.
FallbackMsg ==
    <<"The AI prediction service is currently unavailable. Ensure that the OpenAI library is installed and the OPENAI_API_KEY environment variable is set.">>

\* Lines 114-128: the arguments of openai.ChatCompletion.create.
ChatRequest(ticker, days) ==
    [model |-> "gpt-3.5-turbo",
     messages |-> <<[role |-> "system", content |-> SystemPrompt],
                    [role |-> "user", content |-> UserPrompt(ticker, days)]>>,
     max_tokens |-> 250]

\* What a call can do: raise (network, authentication, quota, ...) or return a
\* response, which may lack any part of choices[0].message.content.
Choice(hasMessage, hasContent, isStr, content) ==
    [has_message |-> hasMessage, has_content |-> hasContent,
     content_is_str |-> isStr, content |-> content]
ApiBody(hasChoices, choices) == [has_choices |-> hasChoices, choices |-> choices]

ModelText == <<" ", "U", "p", " ">>

Outcomes ==
    { [raises |-> TRUE, body |-> ApiBody(FALSE, <<>>)],
      [raises |-> FALSE, body |-> ApiBody(FALSE, <<>>)],
      [raises |-> FALSE, body |-> ApiBody(TRUE, <<>>)],
      [raises |-> FALSE, body |-> ApiBody(TRUE, <<Choice(FALSE, FALSE, FALSE, <<>>)>>)],
      [raises |-> FALSE, body |-> ApiBody(TRUE, <<Choice(TRUE, TRUE, FALSE, <<>>)>>)],
      [raises |-> FALSE, body |-> ApiBody(TRUE, <<Choice(TRUE, TRUE, TRUE, ModelText)>>)] }

\* Completion that takes whatever choices[0].message.content holds, None
\* included, as the text.
Completion_Mutant(outcome) ==
    LET b == outcome.body IN
    IF outcome.raises \/ ~b.has_choices \/ b.choices = <<>>
    THEN [ok |-> FALSE, text |-> <<>>]
    ELSE LET ch == b.choices[1] IN
         IF ~ch.has_message \/ ~ch.has_content
         THEN [ok |-> FALSE, text |-> <<>>]
         ELSE [ok |-> TRUE, text |-> Strip(ch.content)]

\* Lines 114 and 129 inside the try: the text the call yields, or an
\* exception (ok = FALSE): raised by create, a KeyError or IndexError of the
\* subscripts, an AttributeError of None.strip().
Completion(outcome) ==
    LET b == outcome.body IN
    IF outcome.raises \/ ~b.has_choices \/ b.choices = <<>>
    THEN [ok |-> FALSE, text |-> <<>>]
    ELSE LET ch == b.choices[1] IN
         IF ~ch.has_message \/ ~ch.has_content \/ ~ch.content_is_str
         THEN [ok |-> FALSE, text |-> <<>>]
         ELSE [ok |-> TRUE, text |-> Strip(ch.content)]

\* The test of line 112 without the key.
ApiConfigured_Mutant(lib, key) == lib

\* Line 112: `if openai and OPENAI_API_KEY` (None and "" are falsy).
ApiConfigured(lib, key) == lib /\ key # NoneValue /\ key # ""

------------------------------------------------------------------------------
\* Responses.

Redirect(endpoint) ==
    [kind |-> "redirect", location |-> endpoint, template |-> "", context |-> EmptyDict]
Render(template, context) ==
    [kind |-> "render", location |-> "", template |-> template, context |-> context]
NoResponse ==
    [kind |-> "none", location |-> "", template |-> "", context |-> EmptyDict]

TickerError == "Please enter a valid U.S. stock ticker symbol (1-5 letters)."

EmptyForm == [ticker |-> Absent, days |-> Absent]

LoggedIn(sess) == SessionGet(sess, "logged_in")

------------------------------------------------------------------------------
\* The view functions. Each gives the session as the handler leaves it, the
\* response it returns and the external calls it made.

\* home with the two redirects exchanged.
home_Mutant(sess) ==
    [session |-> sess,
     resp |-> IF LoggedIn(sess) THEN Redirect("login") ELSE Redirect("index"),
     calls |-> <<>>]

\* Lines 37-44.
home(sess) ==
    [session |-> sess,
     resp |-> IF LoggedIn(sess) THEN Redirect("index") ELSE Redirect("login"),
     calls |-> <<>>]

\* login that sets the flag only when the session already holds it.
login_Mutant(sess, method) ==
    IF method = "POST"
    THEN [session |-> IF LoggedIn(sess) THEN DictSet(sess, "logged_in", TRUE) ELSE sess,
          resp |-> Redirect("index"),
          calls |-> <<>>]
    ELSE [session |-> sess, resp |-> Render("login.html", EmptyDict), calls |-> <<>>]

\* Lines 47-57.
login(sess, method) ==
    IF method = "POST"
    THEN [session |-> DictSet(sess, "logged_in", TRUE),
          resp |-> Redirect("index"),
          calls |-> <<>>]
    ELSE [session |-> sess, resp |-> Render("login.html", EmptyDict), calls |-> <<>>]

\* logout without session.clear().
logout_Mutant(sess) ==
    [session |-> sess, resp |-> Redirect("login"), calls |-> <<>>]

\* Lines 60-66.
logout(sess) ==
    [session |-> EmptyDict, resp |-> Redirect("login"), calls |-> <<>>]

\* The external call, made a second time when the first attempt fails.
ExternalCall_Mutant(ticker, days, outcome) ==
    IF ApiConfigured(openai, OPENAI_API_KEY)
    THEN LET c == Completion(outcome)
             call == [args |-> ChatRequest(ticker, days), outcome |-> outcome]
         IN  [prediction |-> IF c.ok THEN c.text ELSE FallbackMsg,
              calls |-> IF c.ok THEN <<call>> ELSE <<call, call>>]
    ELSE [prediction |-> FallbackMsg, calls |-> <<>>]

\* Lines 106-132: the prediction text and the calls made for it.
ExternalCall(ticker, days, outcome) ==
    IF ApiConfigured(openai, OPENAI_API_KEY)
    THEN LET c == Completion(outcome) IN
         [prediction |-> IF c.ok THEN c.text ELSE FallbackMsg,
          calls |-> <<[args |-> ChatRequest(ticker, days), outcome |-> outcome]>>]
    ELSE [prediction |-> FallbackMsg, calls |-> <<>>]

\* Lines 69-134.
predict(sess, form, outcome) ==
    IF ~LoggedIn(sess)
    THEN [session |-> sess, resp |-> Redirect("login"), calls |-> <<>>]
    ELSE LET ticker == NormalTicker(form) IN
         IF ~TickerOk(ticker)
         THEN [session |-> sess,
               resp |-> Render("index.html", [error |-> TickerError, ticker |-> <<>>]),
               calls |-> <<>>]
         ELSE LET days == EffectiveDays(form)
                  ext == ExternalCall(ticker, days, outcome)
              IN  [session |-> sess,
                   resp |-> Render("result.html",
                                   [ticker |-> ticker, days |-> days,
                                    prediction |-> ext.prediction]),
                   calls |-> ext.calls]

\* index without the session check.
index_Mutant(sess) ==
    [session |-> sess,
     resp |-> Render("index.html", [error |-> NoneValue, ticker |-> <<>>]),
     calls |-> <<>>]

\* Lines 137-145.
index(sess) ==
    IF ~LoggedIn(sess)
    THEN [session |-> sess, resp |-> Redirect("login"), calls |-> <<>>]
    ELSE [session |-> sess,
          resp |-> Render("index.html", [error |-> NoneValue, ticker |-> <<>>]),
          calls |-> <<>>]

------------------------------------------------------------------------------
\* Requests: a client sends one, the route's view function handles it.

Handle(c, method, path, form, result) ==
    /\ request' = [client |-> c, method |-> method, path |-> path, form |-> form]
    /\ session' = [session EXCEPT ![c] = result.session]
    /\ resp' = result.resp
    /\ calls' = result.calls
    /\ UNCHANGED <<openai, OPENAI_API_KEY>>

\* Form payloads the clients submit.
SomeTickers ==
    {Absent, <<"A", "B">>, <<"a", "B">>, <<" ", "a", " ">>, <<"a", "1">>, <<"U+4E2D">>}
SomeDays == {Absent, <<"1", "0">>, <<"6", "1">>, <<".">>}
Forms == [ticker : SomeTickers, days : SomeDays]

GetHome(c) == Handle(c, "GET", "/", EmptyForm, home(session[c]))
GetLogin(c) == Handle(c, "GET", "/login", EmptyForm, login(session[c], "GET"))
PostLogin(c, form) == Handle(c, "POST", "/login", form, login(session[c], "POST"))
PostLogout(c) == Handle(c, "POST", "/logout", EmptyForm, logout(session[c]))
PostPredict(c, form, outcome) ==
    Handle(c, "POST", "/predict", form, predict(session[c], form, outcome))
GetIndex(c, path) == Handle(c, "GET", path, EmptyForm, index(session[c]))

\* What the external service may answer during one request; without a
\* configured client no call is made and the answer plays no part.
Unreachable == [raises |-> TRUE, body |-> ApiBody(FALSE, <<>>)]
CallOutcomes ==
    IF ApiConfigured(openai, OPENAI_API_KEY) THEN Outcomes ELSE {Unreachable}

NoRequest == [client |-> 0, method |-> "", path |-> "", form |-> EmptyForm]

\* Startup, lines 1-34: the import succeeds or not, the key is unset, empty or
\* set; no session exists yet.
Init ==
    /\ openai \in BOOLEAN
    /\ OPENAI_API_KEY \in {NoneValue, "", "sk-test"}
    /\ session = [c \in Clients |-> EmptyDict]
    /\ request = NoRequest
    /\ resp = NoResponse
    /\ calls = <<>>

Next ==
    \/ \E c \in Clients : GetHome(c)
    \/ \E c \in Clients : GetLogin(c)
    \/ \E c \in Clients : \E form \in {EmptyForm} \cup Forms : PostLogin(c, form)
    \/ \E c \in Clients : PostLogout(c)
    \/ \E c \in Clients : \E form \in Forms : \E outcome \in CallOutcomes :
          PostPredict(c, form, outcome)
    \/ \E c \in Clients : \E path \in {"/index", "/main"} : GetIndex(c, path)

Spec == Init /\ [][Next]_vars

------------------------------------------------------------------------------
\* Vocabulary of the properties, stated on requests and responses alone.

\* The session's logged_in flag is true.
FlagTrue(sess) == "logged_in" \in DOMAIN sess /\ sess["logged_in"] = TRUE

IsMainForm(req) == req.method = "GET" /\ req.path \in {"/index", "/main"}
IsPredict(req) == req.method = "POST" /\ req.path = "/predict"
IsLoginSubmit(req) == req.method = "POST" /\ req.path = "/login"
IsLoginForm(req) == req.method = "GET" /\ req.path = "/login"
IsLogout(req) == req.method = "POST" /\ req.path = "/logout"
IsHome(req) == req.method = "GET" /\ req.path = "/"

ToLogin(r) == r.kind = "redirect" /\ r.location = "login"
ToMainForm(r) == r.kind = "redirect" /\ r.location = "index"
ShowsMainForm(r) ==
    /\ r.kind = "render" /\ r.template = "index.html"
    /\ r.context.error = NoneValue /\ r.context.ticker = <<>>
ShowsTickerError(r) ==
    /\ r.kind = "render" /\ r.template = "index.html"
    /\ r.context.error # NoneValue /\ r.context.ticker = <<>>
ShowsResult(r) == r.kind = "render" /\ r.template = "result.html"

\* The text of a form field ("" when the field was not submitted).
FieldText(v) == IF v = Absent THEN <<>> ELSE v

\* s without its leading and trailing whitespace.
Trimmed(s) ==
    LET solid == {i \in 1..Len(s) : s[i] \notin SpaceChars} IN
    IF solid = {} THEN <<>>
    ELSE SubSeq(s, CHOOSE i \in solid : \A j \in solid : i <= j,
                   CHOOSE i \in solid : \A j \in solid : j <= i)

\* The trimmed, upper-cased form of a submitted ticker.
TrimmedUpper(v) == Upper(Trimmed(FieldText(v)))

Letters == AsciiLower \cup AsciiUpper \cup NonAsciiLetters

\* ^[A-Za-z]{1,5}$
MatchesTickerRegex(s) ==
    /\ Len(s) \in 1..5
    /\ \A i \in 1..Len(s) : s[i] \in AsciiLower \cup AsciiUpper

\* 1 to 5 alphabetic characters.
OneToFiveLetters(t) == Len(t) \in 1..5 /\ \A i \in 1..Len(t) : t[i] \in Letters

\* The digit string s (underscores allowed between digits) has the value n.
RECURSIVE Pow10(_)
Pow10(k) == IF k = 0 THEN 1 ELSE 10 * Pow10(k - 1)
NumeralValue(ds) ==
    LET RECURSIVE Sum(_)
        Sum(k) == IF k = 0 THEN 0
                  ELSE Sum(k - 1) + (DigitVal(ds[k]) * Pow10(Len(ds) - k))
    IN  Sum(Len(ds))
IsNumeral(b) ==
    /\ b # <<>>
    /\ \A i \in 1..Len(b) : b[i] \in Digits \cup {"_"}
    /\ \A i \in 1..Len(b) :
          b[i] = "_" => (i > 1 /\ i < Len(b) /\ b[i - 1] \in Digits /\ b[i + 1] \in Digits)

\* The integers the submitted days value parses as (none or one).
IntegersOf(v) ==
    LET t == Trimmed(FieldText(v))
        neg == t # <<>> /\ t[1] = "-"
        b == IF t # <<>> /\ t[1] \in {"+", "-"} THEN SubSeq(t, 2, Len(t)) ELSE t
    IN  IF IsNumeral(b)
        THEN {(IF neg THEN -1 ELSE 1) * NumeralValue(SelectSeq(b, LAMBDA ch : ch # "_"))}
        ELSE {}

\* The day count a request is to be served with: the submitted value when it
\* parses as an integer in [1,60], else 30.
DaysFor(v) ==
    LET ns == IntegersOf(v) \cap (1..60) IN
    IF ns # {} THEN CHOOSE n \in ns : TRUE ELSE 30

\* The decimal numeral of a day count in 1..99.
Decimal(n) == IF n < 10 THEN <<DigitSeq[n + 1]>>
              ELSE <<DigitSeq[(n \div 10) + 1], DigitSeq[(n % 10) + 1]>>

\* t occurs in s.
Contains(s, t) ==
    \E i \in 0..(Len(s) - Len(t)) : SubSeq(s, i + 1, i + Len(t)) = t

\* The external call failed: it raised, or its response lacks the
\* choices[0].message.content text.
CallFailed(o) ==
    \/ o.raises
    \/ ~o.body.has_choices
    \/ Len(o.body.choices) = 0
    \/ ~o.body.choices[1].has_message
    \/ ~o.body.choices[1].has_content
    \/ ~o.body.choices[1].content_is_str

\* C1: a main-form or predict request by a session whose logged_in flag is not
\* true is answered by a redirect to the login view, renders nothing and
\* makes no external call, whatever requests came before.
C1_UnauthenticatedRedirects ==
    [][\A c \in Clients :
          ( /\ ~FlagTrue(session[c])
            /\ request'.client = c
            /\ (IsMainForm(request') \/ IsPredict(request')) )
          => (ToLogin(resp') /\ resp'.template = "" /\ calls' = <<>>)]_vars

C1_Witness ==
    /\ IsPredict(request)
    /\ request.form.ticker = <<"A", "B">>
    /\ ~FlagTrue(session[request.client])
    /\ ToLogin(resp)
    /\ \E c \in Clients : FlagTrue(session[c])

\* C4: a login submission, from any session state and with any payload, leaves
\* the session with logged_in = true and redirects to the main form; a
\* following main-form request by that session renders the form.
C4_LoginAuthenticates ==
    [][\A c \in Clients :
          /\ (request'.client = c /\ IsLoginSubmit(request'))
                => (FlagTrue(session'[c]) /\ ToMainForm(resp'))
          /\ ( /\ (FlagTrue(session[c]) \/ (request.client = c /\ IsLoginSubmit(request)))
               /\ request'.client = c /\ IsMainForm(request') )
                => ShowsMainForm(resp')]_vars

C4_Witness ==
    /\ IsLoginSubmit(request)
    /\ request.form.ticker = <<"a", "1">>
    /\ FlagTrue(session[request.client])
    /\ ToMainForm(resp)

\* C5: a logout, from any session state, clears all session state and
\* redirects to login; from then on a main-form or predict request by that
\* session redirects to login, and only a login submission by that session
\* ends this.
C5_LogoutClears ==
    [][\A c \in Clients :
          /\ (request'.client = c /\ IsLogout(request'))
                => (DOMAIN session'[c] = {} /\ ToLogin(resp'))
          /\ ( /\ DOMAIN session[c] = {}
               /\ request'.client = c
               /\ (IsMainForm(request') \/ IsPredict(request')) )
                => (ToLogin(resp') /\ DOMAIN session'[c] = {})
          /\ (DOMAIN session[c] = {} /\ DOMAIN session'[c] # {})
                => (request'.client = c /\ IsLoginSubmit(request'))]_vars

C5_Witness ==
    /\ IsLogout(request)
    /\ DOMAIN session[request.client] = {}
    /\ ToLogin(resp)
    /\ \E c \in Clients : FlagTrue(session[c])

\* C8: the logged_in flag of a session changes only by that session's login
\* submit (from not set to true) and logout (from true to not set); Home, the
\* login form, the main form and predict leave every session unchanged; Home
\* redirects to the main form exactly when the session is authenticated and to
\* login otherwise.
C8_SessionFrame ==
    [][/\ \A c \in Clients :
             (FlagTrue(session'[c]) # FlagTrue(session[c]))
                => /\ request'.client = c
                   /\ \/ (IsLoginSubmit(request') /\ ~FlagTrue(session[c]))
                      \/ (IsLogout(request') /\ FlagTrue(session[c]))
       /\ (IsHome(request') \/ IsLoginForm(request') \/ IsMainForm(request')
             \/ IsPredict(request'))
                => session' = session
       /\ IsHome(request')
                => IF FlagTrue(session[request'.client])
                   THEN ToMainForm(resp') ELSE ToLogin(resp')]_vars

C8_Witness ==
    /\ IsHome(request)
    /\ FlagTrue(session[request.client])
    /\ ToMainForm(resp)
    /\ \E c \in Clients : ~FlagTrue(session[c])

\* C6 as stated: when the external API credential (or the client library) is
\* absent, an authenticated predict request with a valid ticker makes no
\* external call and returns a result with the fixed unavailability message,
\* the submitted ticker and the effective day count.
C6_EchoesSubmittedTicker ==
    ( /\ (~openai \/ OPENAI_API_KEY \in {NoneValue, ""})
      /\ IsPredict(request)
      /\ FlagTrue(session[request.client])
      /\ MatchesTickerRegex(FieldText(request.form.ticker)) )
    => /\ calls = <<>>
       /\ ShowsResult(resp)
       /\ resp.context.prediction = FallbackMsg
       /\ resp.context.ticker = request.form.ticker
       /\ resp.context.days = DaysFor(request.form.days)

\* C6, amended: when the external API credential (or the client library) is
\* absent, an authenticated predict request whose ticker passes validation
\* makes no external call and returns a result with the fixed unavailability
\* message, the trimmed, upper-cased form of the submitted ticker and the
\* effective day count; it never ends in an error.
C6_FallbackWithoutCredential ==
    ( /\ (~openai \/ OPENAI_API_KEY \in {NoneValue, ""})
      /\ IsPredict(request)
      /\ FlagTrue(session[request.client])
      /\ OneToFiveLetters(TrimmedUpper(request.form.ticker)) )
    => /\ calls = <<>>
       /\ ShowsResult(resp)
       /\ resp.context.prediction = FallbackMsg
       /\ resp.context.ticker = TrimmedUpper(request.form.ticker)
       /\ resp.context.days = DaysFor(request.form.days)

C6_Witness ==
    /\ openai
    /\ OPENAI_API_KEY = NoneValue
    /\ IsPredict(request)
    /\ request.form = [ticker |-> <<"a", "B">>, days |-> <<"1", "0">>]
    /\ ShowsResult(resp)
    /\ resp.context.ticker = <<"A", "B">>
    /\ resp.context.days = 10
    /\ resp.context.prediction = FallbackMsg

\* C7: when the external call fails in any way (it raises, or its response
\* lacks the choices/message/content shape), the predict request still
\* returns a rendered result with the validated ticker, the effective days
\* and the fixed fallback message, and the session stays authenticated.
C7_FailedCallFallsBack ==
    (IsPredict(request) /\ calls # <<>> /\ CallFailed(calls[1].outcome))
    => /\ resp = Render("result.html",
                        [ticker |-> TrimmedUpper(request.form.ticker),
                         days |-> DaysFor(request.form.days),
                         prediction |-> FallbackMsg])
       /\ OneToFiveLetters(resp.context.ticker)
       /\ FlagTrue(session[request.client])

C7_Witness ==
    /\ IsPredict(request)
    /\ calls # <<>>
    /\ ~calls[1].outcome.raises
    /\ CallFailed(calls[1].outcome)
    /\ ShowsResult(resp)
    /\ resp.context.prediction = FallbackMsg

\* C9 as stated: an authenticated predict request with a valid ticker and a
\* configured credential makes exactly one external call.
C9_OneCallWhenKeySet ==
    ( /\ IsPredict(request)
      /\ FlagTrue(session[request.client])
      /\ MatchesTickerRegex(FieldText(request.form.ticker))
      /\ OPENAI_API_KEY \notin {NoneValue, ""} )
    => Len(calls) = 1

\* C9, amended: an authenticated predict request with a ticker that passes
\* validation, a configured credential and an imported client library makes
\* exactly one external call, with a system instruction and a user
\* instruction that embeds the ticker and the effective day count; no request
\* makes more than one call, and a request that is redirected or fails ticker
\* validation (or is no predict request) makes none.
C9_OneCallPerPrediction ==
    /\ Len(calls) <= 1
    /\ ( /\ IsPredict(request)
         /\ FlagTrue(session[request.client])
         /\ OneToFiveLetters(TrimmedUpper(request.form.ticker))
         /\ OPENAI_API_KEY \notin {NoneValue, ""}
         /\ openai )
       => /\ Len(calls) = 1
          /\ Len(calls[1].args.messages) = 2
          /\ calls[1].args.messages[1].role = "system"
          /\ calls[1].args.messages[1].content # <<>>
          /\ calls[1].args.messages[2].role = "user"
          /\ Contains(calls[1].args.messages[2].content,
                      TrimmedUpper(request.form.ticker) \o <<"' ">>
                         \o Decimal(DaysFor(request.form.days)))
    /\ (~IsPredict(request) \/ ToLogin(resp) \/ ShowsTickerError(resp))
       => calls = <<>>

C9_Witness ==
    /\ IsPredict(request)
    /\ Len(calls) = 1
    /\ CallFailed(calls[1].outcome)
    /\ request.form = [ticker |-> <<" ", "a", " ">>, days |-> <<"6", "1">>]
    /\ Contains(calls[1].args.messages[2].content, <<"A", "' ", "3", "0">>)

------------------------------------------------------------------------------
\* Ticker validation on its own: one authenticated client holds a filled-in
\* form with any ticker of up to MaxTickerLen characters and submits it.

TickerChars == {"a", "B", "1", " ", "U+00DF", "U+4E2D"}

StringsUpTo(chars, n) == UNION {[1..k -> chars] : k \in 0..n}

TickerInputs == {Absent} \cup StringsUpTo(TickerChars, MaxTickerLen)

InitTicker ==
    /\ openai = FALSE
    /\ OPENAI_API_KEY = NoneValue
    /\ session = [c \in Clients |-> DictSet(EmptyDict, "logged_in", TRUE)]
    /\ \E t \in TickerInputs :
          request = [client |-> 1, method |-> "POST", path |-> "/predict",
                     form |-> [ticker |-> t, days |-> Absent]]
    /\ resp = NoResponse
    /\ calls = <<>>

\* The pending request is handled (and may be sent again).
SubmitPending ==
    \E outcome \in CallOutcomes : PostPredict(request.client, request.form, outcome)

SpecTicker == InitTicker /\ [][SubmitPending]_vars

Answered == resp # NoResponse

\* C2: for an authenticated predict request, ticker validation passes exactly
\* for the submitted tickers matching ^[A-Za-z]{1,5}$; for every other
\* submitted string (empty, with digits, symbols or whitespace, longer than 5
\* characters) the form is re-rendered (no redirect) with an error message
\* and an empty ticker field.
C2_PassesExactlyOnRegex ==
    (Answered /\ IsPredict(request) /\ FlagTrue(session[request.client]))
    => IF MatchesTickerRegex(FieldText(request.form.ticker))
       THEN ShowsResult(resp)
       ELSE ShowsTickerError(resp)

\* What line 79 and line 82 decide instead: validation passes exactly when the
\* submitted ticker, with surrounding whitespace removed and upper-cased,
\* consists of 1 to 5 alphabetic characters, ASCII or not.
TickerValidationAsCoded ==
    (Answered /\ IsPredict(request) /\ FlagTrue(session[request.client]))
    => IF OneToFiveLetters(TrimmedUpper(request.form.ticker))
       THEN ShowsResult(resp)
       ELSE /\ ShowsTickerError(resp)
            /\ resp.context.error = TickerError

PaddedTickerAccepted ==
    /\ Answered
    /\ request.form.ticker = <<" ", "a", "B", "a", "B", "a">>
    /\ ShowsResult(resp)
    /\ resp.context.ticker = <<"A", "B", "A", "B", "A">>

------------------------------------------------------------------------------
\* The day count on its own: one authenticated client holds a form with a
\* valid ticker and any days text of up to MaxDaysLen characters.

DaysChars == {"0", "1", "6", "+", "-", "_", " ", "."}

DaysInputs == {Absent} \cup StringsUpTo(DaysChars, MaxDaysLen)

InitDays ==
    /\ openai \in BOOLEAN
    /\ OPENAI_API_KEY \in {NoneValue, "", "sk-test"}
    /\ session = [c \in Clients |-> DictSet(EmptyDict, "logged_in", TRUE)]
    /\ \E d \in DaysInputs :
          request = [client |-> 1, method |-> "POST", path |-> "/predict",
                     form |-> [ticker |-> <<"a", "B">>, days |-> d]]
    /\ resp = NoResponse
    /\ calls = <<>>

SpecDays == InitDays /\ [][SubmitPending]_vars

\* C3: for an authenticated predict request with a valid ticker, the effective
\* day count is the submitted days value whenever that parses as an integer
\* in [1,60] and exactly 30 for every other submitted value (non-numeric,
\* empty, absent, below 1, above 60); no error is shown and the request
\* still produces a prediction result.
C3_DaysOrThirty ==
    (Answered /\ IsPredict(request) /\ FlagTrue(session[request.client])
        /\ MatchesTickerRegex(FieldText(request.form.ticker)))
    => /\ ShowsResult(resp)
       /\ DOMAIN resp.context = {"ticker", "days", "prediction"}
       /\ \A n \in IntegersOf(request.form.days) :
             n \in 1..60 => resp.context.days = n
       /\ (IntegersOf(request.form.days) \cap (1..60) = {}) => resp.context.days = 30

C3_Witness ==
    /\ Answered
    /\ request.form.days = <<" ", "6", "0">>
    /\ ShowsResult(resp)
    /\ resp.context.days = 60
    /\ calls # <<>>

\* C10: every request that passes validation, and so every prompt sent to the
\* external API and every rendered prediction result, carries a ticker of 1
\* to 5 upper-case alphabetic characters (the trimmed, upper-cased form of
\* the submitted ticker) and a day count that is an integer in [1,60]; the
\* prediction text is the model's output or the fixed fallback string.
IsUpperCaseLetter(c) == c \in AsciiUpper \cup {"U+00C9"}

C10_UpperCaseTickerAndDays ==
    (IsPredict(request) /\ ShowsResult(resp))
    => /\ Len(resp.context.ticker) \in 1..5
       /\ \A i \in 1..Len(resp.context.ticker) : IsUpperCaseLetter(resp.context.ticker[i])
       /\ resp.context.ticker = TrimmedUpper(request.form.ticker)
       /\ resp.context.days \in 1..60
       /\ \/ resp.context.prediction = FallbackMsg
          \/ /\ calls # <<>>
             /\ ~CallFailed(calls[1].outcome)
             /\ resp.context.prediction = Trimmed(calls[1].outcome.body.choices[1].content)
       /\ \A k \in 1..Len(calls) :
             Contains(calls[k].args.messages[2].content,
                      resp.context.ticker \o <<"' ">> \o Decimal(resp.context.days))

====
